---- MODULE Spec2Model ----
(***************************************************************************)
(* Subscription-Tracker API: the account handlers (signUp, signIn,         *)
(* signOut), the error middleware and the subscription pre-save rule.      *)
(***************************************************************************)
EXTENDS Integers, Sequences, FiniteSets, TLC

\* the field names of the records below; every record lists its fields in
\* this order
FieldOrder ==
  [_id |-> 1, abortCalls |-> 2, alg |-> 3, body |-> 4, cls |-> 5,
   code |-> 6, commitCalls |-> 7, compared |-> 8, data |-> 9, email |-> 10,
   endCalls |-> 11, error |-> 12, errors |-> 13, existingUser |-> 14,
   failedAt |-> 15, frequency |-> 16, hashedPassword |-> 17,
   keyValue |-> 18, kind |-> 19, message |-> 20, name |-> 21,
   nextCalls |-> 22, of |-> 23, originalError |-> 24, pairs |-> 25,
   password |-> 26, pc |-> 27, pending |-> 28, present |-> 29,
   renewalDate |-> 30, salt |-> 31, sent |-> 32, stack |-> 33,
   startDate |-> 34, status |-> 35, statusCode |-> 36, success |-> 37,
   token |-> 38, txn |-> 39, user |-> 40, userId |-> 41]

(***************************************************************************)
(* Bounds                                                                  *)
(***************************************************************************)
MaxReq == 2
MaxFaults == 1

Reqs == 1..MaxReq
Emails == {"a@x.io", "b@x.io"}
Passwords == {"pw1", "pw2"}
Names == {"Ann"}
Kinds == {"signUp", "signIn", "signOut"}

(***************************************************************************)
(* Optional values: << >> is null/undefined, <<v>> is a value.             *)
(***************************************************************************)
None == << >>
Some(v) == <<v>>
IsSome(o) == Len(o) > 0
Restrict(f, S) == [k \in S |-> f[k]]

\* Join that keeps the first element only
Join_FirstOnly(msgs, sep) == IF Len(msgs) = 0 THEN "" ELSE msgs[1]

RECURSIVE Join(_, _)
Join(msgs, sep) ==
  IF Len(msgs) = 0 THEN ""
  ELSE IF Len(msgs) = 1 THEN msgs[1]
  ELSE msgs[1] \o sep \o Join(Tail(msgs), sep)

(***************************************************************************)
(* Error values.  statusCode 0 and message "" stand for an absent          *)
(* property (both are falsy, as undefined is).                             *)
(***************************************************************************)
NoKeyValue == [pairs |-> << >>, present |-> FALSE]
PlainError(msg) ==
  [cls |-> "Error", code |-> 0, errors |-> << >>, keyValue |-> NoKeyValue,
   message |-> msg, name |-> "Error", stack |-> "at <trace>", statusCode |-> 0]
CustomError(msg, status) ==
  [PlainError(msg) EXCEPT !.cls = "CustomError", !.statusCode = status]
TypeError(msg) == [PlainError(msg) EXCEPT !.cls = "TypeError", !.name = "TypeError"]
DuplicateKeyError(field, value) ==
  [PlainError("E11000 duplicate key error") EXCEPT
     !.cls = "MongoServerError", !.name = "MongoServerError", !.code = 11000,
     !.keyValue = [pairs |-> << <<field, value>> >>, present |-> TRUE]]

(***************************************************************************)
(* errorMiddleware: the response (status code and body) for an error.      *)
(***************************************************************************)
\* StatusOf with 500 for every error of no known class
StatusOf_Always500(err) ==
  IF err.cls = "CustomError" THEN err.statusCode
  ELSE IF err.name = "CastError" THEN 404
  ELSE IF err.code = 11000 /\ err.keyValue.present THEN 400
  ELSE IF err.name = "ValidationError" THEN 400
  ELSE 500

\* StatusOf with the CastError test ahead of the CustomError test
StatusOf_CastFirst(err) ==
  IF err.name = "CastError" THEN 404
  ELSE IF err.cls = "CustomError" THEN err.statusCode
  ELSE IF err.code = 11000 /\ err.keyValue.present THEN 400
  ELSE IF err.name = "ValidationError" THEN 400
  ELSE IF err.statusCode # 0 THEN err.statusCode ELSE 500

StatusOf(err) ==
  IF err.cls = "CustomError" THEN err.statusCode
  ELSE IF err.name = "CastError" THEN 404
  ELSE IF err.code = 11000 /\ err.keyValue.present THEN 400
  ELSE IF err.name = "ValidationError" THEN 400
  ELSE IF err.statusCode # 0 THEN err.statusCode ELSE 500

\* MessageOf with the value ahead of the field in the duplicate message
MessageOf_ValueFirst(err) ==
  IF err.cls = "CustomError" THEN err.message
  ELSE IF err.name = "CastError" THEN "Resource not found!"
  ELSE IF err.code = 11000 /\ err.keyValue.present THEN
    LET kv == err.keyValue.pairs
        field == IF Len(kv) > 0 THEN kv[1][1] ELSE "undefined"
        value == IF Len(kv) > 0 THEN kv[1][2] ELSE "undefined"
    IN "Duplicate value for " \o value \o ": " \o field
  ELSE IF err.name = "ValidationError" THEN Join(err.errors, ", ")
  ELSE IF err.message # "" THEN err.message ELSE "Internal Server Error"

MessageOf(err) ==
  IF err.cls = "CustomError" THEN err.message
  ELSE IF err.name = "CastError" THEN "Resource not found!"
  ELSE IF err.code = 11000 /\ err.keyValue.present THEN
    LET kv == err.keyValue.pairs
        field == IF Len(kv) > 0 THEN kv[1][1] ELSE "undefined"
        value == IF Len(kv) > 0 THEN kv[1][2] ELSE "undefined"
    IN "Duplicate value for " \o field \o ": " \o value
  ELSE IF err.name = "ValidationError" THEN Join(err.errors, ", ")
  ELSE IF err.message # "" THEN err.message ELSE "Internal Server Error"

\* errorMiddleware that adds the debugging keys in every mode
errorMiddleware_StackAlways(err, env) ==
  [body |-> [message |-> MessageOf(err), originalError |-> err,
             stack |-> err.stack, success |-> FALSE],
   sent |-> TRUE, statusCode |-> StatusOf(err)]

\* errorMiddleware that adds the debugging keys in no mode
errorMiddleware_StackNever(err, env) ==
  [body |-> [message |-> MessageOf(err), success |-> FALSE],
   sent |-> TRUE, statusCode |-> StatusOf(err)]

errorMiddleware(err, env) ==
  LET errorResponse == [message |-> MessageOf(err), success |-> FALSE]
      full == IF env = "development"
              THEN [message |-> MessageOf(err), originalError |-> err,
                    stack |-> err.stack, success |-> FALSE]
              ELSE errorResponse
  IN [body |-> full, sent |-> TRUE, statusCode |-> StatusOf(err)]

(***************************************************************************)
(* Trusted primitives: bcryptjs hash/compare and jsonwebtoken sign.        *)
(***************************************************************************)
\* a fresh salt for every call
genSalt(r) == r
hash(password, salt) == [alg |-> "bcrypt", of |-> password, salt |-> salt]
compare(password, hashed) == hashed.of = password
sign(userId) == [alg |-> "jwt", userId |-> userId]

(***************************************************************************)
(* The User model.                                                         *)
(***************************************************************************)
UserFields == {"_id", "name", "email", "password"}
DefaultSelect == UserFields \ {"password"}
ExistingUser ==
  [_id |-> 0, email |-> "a@x.io", name |-> "Ann", password |-> hash("pw1", 0)]

\* User.findOne({ email }): the stored user with that email, default projection
findOne(us, email) ==
  IF \E u \in us : u.email = email
  THEN Some(Restrict(CHOOSE u \in us : u.email = email, DefaultSelect))
  ELSE None

\* the unique index on email
EmailTaken(us, email) == \E u \in us : u.email = email

(***************************************************************************)
(* Dates.  A Date is the number of its day since 1970-01-01; the time      *)
(* within the day is carried along unchanged by every operation below and  *)
(* is not represented.  Months are 0-based as in the Date API.             *)
(***************************************************************************)
Years == 2020..2030
DaysInYear(y) ==
  IF y % 4 # 0 THEN 365 ELSE IF y % 100 # 0 THEN 366
  ELSE IF y % 400 # 0 THEN 365 ELSE 366
DayFromYear(y) ==
  365 * (y - 1970) + ((y - 1969) \div 4) - ((y - 1901) \div 100)
    + ((y - 1601) \div 400)
MonthLength(y, m) ==
  IF m = 1 THEN DaysInYear(y) - 337
  ELSE IF m \in {3, 5, 8, 10} THEN 30 ELSE 31
RECURSIVE DaysBeforeMonth(_, _)
DaysBeforeMonth(y, m) ==
  IF m = 0 THEN 0 ELSE DaysBeforeMonth(y, m - 1) + MonthLength(y, m - 1)
YearFromDay(n) ==
  CHOOSE y \in Years : DayFromYear(y) <= n /\ n < DayFromYear(y + 1)
DayWithinYear(n) == n - DayFromYear(YearFromDay(n))
MonthFromDay(n) ==
  CHOOSE m \in 0..11 :
    /\ DaysBeforeMonth(YearFromDay(n), m) <= DayWithinYear(n)
    /\ DayWithinYear(n) < DaysBeforeMonth(YearFromDay(n), m)
                            + MonthLength(YearFromDay(n), m)
DateFromDay(n) ==
  DayWithinYear(n) - DaysBeforeMonth(YearFromDay(n), MonthFromDay(n)) + 1
\* MakeDay of the Date API: month and date may lie outside their ranges
MakeDay(year, month, date) ==
  LET ym == year + (month \div 12)
      mn == month % 12
  IN DayFromYear(ym) + DaysBeforeMonth(ym, mn) + date - 1
setDate(t, date) == MakeDay(YearFromDay(t), MonthFromDay(t), date)
setMonth(t, month) == MakeDay(YearFromDay(t), month, DateFromDay(t))
setFullYear(t, year) == MakeDay(year, MonthFromDay(t), DateFromDay(t))

(***************************************************************************)
(* The Subscription model: validators and the pre-save rule.               *)
(***************************************************************************)
FrequencyEnum == {"daily", "weekly", "monthly", "yearly"}
StatusEnum == {"active", "cancelled", "expired"}

\* Validate with a renewalDate validator that accepts value >= startDate
Validate_RenewalNotBefore(doc, t) ==
  (IF doc.frequency # "none" /\ doc.frequency \notin FrequencyEnum
     THEN <<"frequency is not a valid enum value">> ELSE << >>)
  \o (IF ~(doc.startDate < t) THEN <<"Start date must in the past">> ELSE << >>)
  \o (IF IsSome(doc.renewalDate) /\ ~(doc.renewalDate[1] >= doc.startDate)
        THEN <<"Renewal date must be after the start date">> ELSE << >>)

\* Validate with a startDate validator that accepts value <= new Date()
Validate_StartNotAfter(doc, t) ==
  (IF doc.frequency # "none" /\ doc.frequency \notin FrequencyEnum
     THEN <<"frequency is not a valid enum value">> ELSE << >>)
  \o (IF ~(doc.startDate <= t) THEN <<"Start date must in the past">> ELSE << >>)
  \o (IF IsSome(doc.renewalDate) /\ ~(doc.renewalDate[1] > doc.startDate)
        THEN <<"Renewal date must be after the start date">> ELSE << >>)

\* schema validators, run by save() before the pre-save rule; the
\* validators of a path run only when the path has a value
Validate(doc, t) ==
  (IF doc.frequency # "none" /\ doc.frequency \notin FrequencyEnum
     THEN <<"frequency is not a valid enum value">> ELSE << >>)
  \o (IF ~(doc.startDate < t) THEN <<"Start date must in the past">> ELSE << >>)
  \o (IF IsSome(doc.renewalDate) /\ ~(doc.renewalDate[1] > doc.startDate)
        THEN <<"Renewal date must be after the start date">> ELSE << >>)

ValidationError(msgs) ==
  [PlainError("Subscription validation failed") EXCEPT
     !.cls = "ValidationError", !.name = "ValidationError", !.errors = msgs]

\* lines 61-78: renewalDate starts as a copy of startDate and is advanced
Advance(startDate, frequency) ==
  LET renewalDate == startDate
  IN IF frequency = "daily" THEN setDate(renewalDate, DateFromDay(renewalDate) + 1)
     ELSE IF frequency = "weekly"
       THEN setDate(renewalDate, DateFromDay(renewalDate) + 7)
     ELSE IF frequency = "monthly"
       THEN setMonth(renewalDate, MonthFromDay(renewalDate) + 1)
     ELSE IF frequency = "yearly"
       THEN setFullYear(renewalDate, YearFromDay(renewalDate) + 1)
     ELSE renewalDate

\* preSave with the expiry test placed before the derivation
preSave_ExpiryFirst(doc, t) ==
  LET checked == IF IsSome(doc.renewalDate) /\ doc.renewalDate[1] < t
                 THEN [doc EXCEPT !.status = "expired"]
                 ELSE doc
  IN IF ~IsSome(checked.renewalDate)
     THEN [checked EXCEPT !.renewalDate =
             Some(Advance(checked.startDate, checked.frequency))]
     ELSE checked

\* preSave that sets status back to active when the renewal is still ahead
preSave_Reactivates(doc, t) ==
  LET derived == IF ~IsSome(doc.renewalDate)
                 THEN [doc EXCEPT !.renewalDate =
                         Some(Advance(doc.startDate, doc.frequency))]
                 ELSE doc
  IN IF IsSome(derived.renewalDate) /\ derived.renewalDate[1] < t
     THEN [derived EXCEPT !.status = "expired"]
     ELSE [derived EXCEPT !.status = "active"]

\* subscriptionSchema.pre("save")
preSave(doc, t) ==
  LET derived == IF ~IsSome(doc.renewalDate)
                 THEN [doc EXCEPT !.renewalDate =
                         Some(Advance(doc.startDate, doc.frequency))]
                 ELSE doc
  IN IF IsSome(derived.renewalDate) /\ derived.renewalDate[1] < t
     THEN [derived EXCEPT !.status = "expired"]
     ELSE derived

VARIABLES users, req, session, res, faults, nodeEnv,
          sub, draft, stored, now, saveState, saveError, saves,
          errIn, errRes
authVars == <<users, req, session, res, faults, nodeEnv>>
saveVars == <<sub, draft, stored, now, saveState, saveError, saves>>
errVars == <<errIn, errRes>>
vars == <<authVars, saveVars, errVars>>

NoBody == [email |-> "", name |-> "", password |-> ""]
IdleReq ==
  [body |-> NoBody, compared |-> FALSE, error |-> None, existingUser |-> None,
   failedAt |-> "", hashedPassword |-> None, kind |-> "idle", nextCalls |-> 0,
   pc |-> "idle", token |-> None, user |-> None]
NoSession ==
  [abortCalls |-> 0, commitCalls |-> 0, endCalls |-> 0, pending |-> {},
   txn |-> "none"]
NoRes == [body |-> [success |-> FALSE], sent |-> FALSE, statusCode |-> 0]

NoSub == [frequency |-> "none", renewalDate |-> None, startDate |-> 0,
          status |-> "active"]
SaveIdle ==
  /\ sub = NoSub
  /\ draft = NoSub
  /\ stored = None
  /\ now = 0
  /\ saveState = "idle"
  /\ saveError = None
  /\ saves = 0
ErrIdle ==
  /\ errIn = PlainError("")
  /\ errRes = NoRes
AuthIdle ==
  /\ users = {}
  /\ req = [r \in Reqs |-> IdleReq]
  /\ session = [r \in Reqs |-> NoSession]
  /\ res = [r \in Reqs |-> NoRes]
  /\ faults = 0
  /\ nodeEnv = "development"

Init ==
  /\ users \in {{}, {ExistingUser}}
  /\ req = [r \in Reqs |-> IdleReq]
  /\ session = [r \in Reqs |-> NoSession]
  /\ res = [r \in Reqs |-> NoRes]
  /\ faults = 0
  /\ nodeEnv \in {"development", "production"}
  /\ SaveIdle
  /\ ErrIdle

\* a request arrives at one of the three auth routes
Receive(r, k, b) ==
  /\ req[r].kind = "idle"
  /\ \A q \in Reqs : q < r => req[q].kind # "idle"
  /\ req' = [req EXCEPT ![r] = [@ EXCEPT !.kind = k, !.body = b,
                !.pc = IF k = "signUp" THEN "startSession"
                       ELSE IF k = "signIn" THEN "findOne" ELSE "signOut"]]
  /\ UNCHANGED <<users, session, res, faults, nodeEnv, saveVars, errVars>>

(***************************************************************************)
(* The mongoose session of one signUp call.                                *)
(***************************************************************************)
StartTransaction(s) == [s EXCEPT !.txn = "active"]
\* a commit writes everything or, when it fails, nothing
CommitTransaction(s, ok) ==
  [s EXCEPT !.commitCalls = @ + 1, !.pending = {},
            !.txn = IF ok THEN "committed" ELSE "aborted"]
\* a catch clause that never rolls back
AbortTransaction_Skipped(s) == s
AbortTransaction(s) ==
  [s EXCEPT !.abortCalls = @ + 1, !.pending = {},
            !.txn = IF @ = "active" THEN "aborted" ELSE @]
EndSession(s) ==
  [s EXCEPT !.endCalls = @ + 1, !.pending = {},
            !.txn = IF @ = "active" THEN "aborted" ELSE @]

\* the pre-check answered as a plain bad request
UserAlreadyExists_400 == CustomError("User already exists", 400)
UserAlreadyExists == CustomError("User already exists", 409)
SignUpSuccess(token, user) ==
  [body |-> [data |-> [token |-> token, user |-> user],
             message |-> "User signed up successfully", success |-> TRUE],
   sent |-> TRUE, statusCode |-> 200]

\* throw inside the try block: control goes to the catch clause
Throw(r, err) == [req[r] EXCEPT !.error = Some(err), !.pc = "catch"]

\* lines 9-10: startSession(), session.startTransaction()
SignUpStart(r) ==
  /\ req[r].pc = "startSession"
  /\ session' = [session EXCEPT ![r] = StartTransaction(@)]
  /\ req' = [req EXCEPT ![r].pc = "findOne"]
  /\ UNCHANGED <<users, res, faults, nodeEnv, saveVars, errVars>>

\* lines 16-20: the existing-user pre-check (a read outside the session)
SignUpFindOne(r) ==
  /\ req[r].kind = "signUp" /\ req[r].pc = "findOne"
  /\ LET existingUser == findOne(users, req[r].body.email)
     IN req' = [req EXCEPT ![r] =
                  IF IsSome(existingUser)
                  THEN [Throw(r, UserAlreadyExists) EXCEPT
                          !.existingUser = existingUser]
                  ELSE [@ EXCEPT !.existingUser = existingUser, !.pc = "hash"]]
  /\ UNCHANGED <<users, session, res, faults, nodeEnv, saveVars, errVars>>

\* lines 22-23: genSalt(10), hash(password, salt)
SignUpHash(r) ==
  /\ req[r].pc = "hash"
  /\ LET salt == genSalt(r)
     IN req' = [req EXCEPT ![r].hashedPassword =
                  Some(hash(req[r].body.password, salt)), ![r].pc = "create"]
  /\ UNCHANGED <<users, session, res, faults, nodeEnv, saveVars, errVars>>

\* lines 25-34: User.create([...], { session })
SignUpCreate(r) ==
  /\ req[r].pc = "create"
  /\ LET b == req[r].body
         doc == [_id |-> r, email |-> b.email, name |-> b.name,
                 password |-> req[r].hashedPassword[1]]
     IN IF EmailTaken(users, b.email)
        THEN /\ req' = [req EXCEPT ![r] =
                          Throw(r, DuplicateKeyError("email", b.email))]
             /\ UNCHANGED session
        ELSE /\ req' = [req EXCEPT ![r].user = Some(doc), ![r].pc = "sign"]
             /\ session' = [session EXCEPT ![r].pending = {doc}]
  /\ UNCHANGED <<users, res, faults, nodeEnv, saveVars, errVars>>

\* lines 36-38: jwt.sign({ userId: user[0]._id }, ...)
SignUpSign(r) ==
  /\ req[r].pc = "sign"
  /\ req' = [req EXCEPT ![r].token = Some(sign(req[r].user[1]._id)),
                        ![r].pc = "commit"]
  /\ UNCHANGED <<users, session, res, faults, nodeEnv, saveVars, errVars>>

\* line 40: session.commitTransaction()
SignUpCommit(r) ==
  /\ req[r].pc = "commit"
  /\ LET email == req[r].body.email
     IN IF EmailTaken(users, email)
        THEN /\ req' = [req EXCEPT ![r] =
                          Throw(r, DuplicateKeyError("email", email))]
             /\ session' = [session EXCEPT ![r] = CommitTransaction(@, FALSE)]
             /\ UNCHANGED users
        ELSE /\ users' = users \cup session[r].pending
             /\ session' = [session EXCEPT ![r] = CommitTransaction(@, TRUE)]
             /\ req' = [req EXCEPT ![r].pc = "respond"]
  /\ UNCHANGED <<res, faults, nodeEnv, saveVars, errVars>>

\* lines 42-46 and the finally clause
SignUpRespond(r) ==
  /\ req[r].kind = "signUp" /\ req[r].pc = "respond"
  /\ res' = [res EXCEPT ![r] = SignUpSuccess(req[r].token[1], req[r].user[1])]
  /\ session' = [session EXCEPT ![r] = EndSession(@)]
  /\ req' = [req EXCEPT ![r].pc = "done"]
  /\ UNCHANGED <<users, faults, nodeEnv, saveVars, errVars>>

\* lines 47-52: abortTransaction(), next(error), then the finally clause
SignUpCatch(r) ==
  /\ req[r].kind = "signUp" /\ req[r].pc = "catch"
  /\ session' = [session EXCEPT ![r] = EndSession(AbortTransaction(@))]
  /\ res' = [res EXCEPT ![r] = errorMiddleware(req[r].error[1], nodeEnv)]
  /\ req' = [req EXCEPT ![r].nextCalls = @ + 1, ![r].pc = "done"]
  /\ UNCHANGED <<users, faults, nodeEnv, saveVars, errVars>>

\* lines 48, 50-52: abortTransaction() called after commitTransaction() may
\* reject; the finally clause still runs, next(error) is not reached
SignUpCatchAbortThrows(r) ==
  /\ req[r].kind = "signUp" /\ req[r].pc = "catch"
  /\ session[r].commitCalls > 0
  /\ session' = [session EXCEPT ![r] = EndSession(AbortTransaction(@))]
  /\ req' = [req EXCEPT ![r].pc = "rejected"]
  /\ UNCHANGED <<users, res, faults, nodeEnv, saveVars, errVars>>

\* an awaited or called operation of signUp throws an unexpected error
FaultSteps == {"startSession", "findOne", "hash", "create", "sign", "commit",
               "respond"}
SignUpFault(r) ==
  /\ req[r].kind = "signUp" /\ req[r].pc \in FaultSteps
  /\ faults < MaxFaults
  /\ faults' = faults + 1
  /\ LET step == req[r].pc
         err == PlainError("unexpected failure")
     IN /\ req' = [req EXCEPT ![r] =
                     IF step = "startSession"
                     THEN [@ EXCEPT !.error = Some(err), !.pc = "rejected",
                                    !.failedAt = step]
                     ELSE [Throw(r, err) EXCEPT !.failedAt = step]]
        /\ session' = [session EXCEPT ![r] =
                         IF step = "commit" THEN CommitTransaction(@, FALSE)
                         ELSE @]
  /\ UNCHANGED <<users, res, nodeEnv, saveVars, errVars>>

(***************************************************************************)
(* signIn                                                                  *)
(***************************************************************************)
NoAccountFound == CustomError("No account found", 404)
IncorrectPassword == CustomError("Incorrect password", 401)
SignInSuccess(token, user) ==
  [body |-> [data |-> [token |-> token, user |-> user],
             message |-> "User signed in successfully", success |-> TRUE],
   sent |-> TRUE, statusCode |-> 200]

\* next(error) from a catch clause without cleanup
Forward(r, err) ==
  /\ res' = [res EXCEPT ![r] = errorMiddleware(err, nodeEnv)]
  /\ req' = [req EXCEPT ![r].error = Some(err), ![r].nextCalls = @ + 1,
                        ![r].pc = "done"]

\* lines 59-63: User.findOne({ email }) and the not-found check
SignInFindOne(r) ==
  /\ req[r].kind = "signIn" /\ req[r].pc = "findOne"
  /\ LET user == findOne(users, req[r].body.email)
     IN IF ~IsSome(user)
        THEN Forward(r, NoAccountFound)
        ELSE /\ req' = [req EXCEPT ![r].user = user, ![r].pc = "compare"]
             /\ UNCHANGED res
  /\ UNCHANGED <<users, session, faults, nodeEnv, saveVars, errVars>>

\* lines 65-79: compare(password, user.password), jwt.sign, the response
SignInCompare(r) ==
  /\ req[r].kind = "signIn" /\ req[r].pc = "compare"
  /\ LET user == req[r].user[1]
     IN IF "password" \notin DOMAIN user
        THEN \* bcryptjs rejects a hash argument that is not a string
             /\ res' = [res EXCEPT ![r] = errorMiddleware(
                          PlainError("Illegal arguments: string, undefined"),
                          nodeEnv)]
             /\ req' = [req EXCEPT ![r].error =
                          Some(PlainError("Illegal arguments: string, undefined")),
                          ![r].nextCalls = @ + 1, ![r].pc = "done",
                          ![r].compared = TRUE]
        ELSE IF ~compare(req[r].body.password, user.password)
        THEN /\ res' = [res EXCEPT ![r] =
                          errorMiddleware(IncorrectPassword, nodeEnv)]
             /\ req' = [req EXCEPT ![r].error = Some(IncorrectPassword),
                          ![r].nextCalls = @ + 1, ![r].pc = "done",
                          ![r].compared = TRUE]
        ELSE /\ res' = [res EXCEPT ![r] = SignInSuccess(sign(user._id), user)]
             /\ req' = [req EXCEPT ![r].token = Some(sign(user._id)),
                          ![r].pc = "done", ![r].compared = TRUE]
  /\ UNCHANGED <<users, session, faults, nodeEnv, saveVars, errVars>>

(***************************************************************************)
(* signOut                                                                 *)
(***************************************************************************)
\* the methods of the express response object
ResponseMethods == {"status", "json", "send", "cookie", "clearCookie"}
SignOutSuccess ==
  [body |-> [message |-> "User signed out successfully", success |-> TRUE],
   sent |-> TRUE, statusCode |-> 200]

\* lines 86-94
SignOut(r) ==
  /\ req[r].kind = "signOut" /\ req[r].pc = "signOut"
  /\ IF "clearCookies" \in ResponseMethods
     THEN /\ res' = [res EXCEPT ![r] = SignOutSuccess]
          /\ req' = [req EXCEPT ![r].pc = "done"]
     ELSE Forward(r, TypeError("res.clearCookies is not a function"))
  /\ UNCHANGED <<users, session, faults, nodeEnv, saveVars, errVars>>

Next ==
  \E r \in Reqs :
    \/ \E k \in Kinds, n \in Names, e \in Emails, p \in Passwords :
         Receive(r, k, [email |-> e, name |-> n, password |-> p])
    \/ SignUpStart(r)
    \/ SignUpFindOne(r)
    \/ SignUpHash(r)
    \/ SignUpCreate(r)
    \/ SignUpSign(r)
    \/ SignUpCommit(r)
    \/ SignUpRespond(r)
    \/ SignUpCatch(r)
    \/ SignUpCatchAbortThrows(r)
    \/ SignUpFault(r)
    \/ SignInFindOne(r)
    \/ SignInCompare(r)
    \/ SignOut(r)

Spec == Init /\ [][Next]_vars

(***************************************************************************)
(* Saving one Subscription document.                                       *)
(***************************************************************************)
FirstDay == MakeDay(2023, 11, 1)
WindowDays == 460
StartDays ==
  {d \in FirstDay..(FirstDay + WindowDays) : DateFromDay(d) \in {1, 15, 28, 29, 30, 31}}
Frequencies == FrequencyEnum \cup {"none", "hourly"}
NowOffsets == {-1, 0, 1, 2, 8, 400, 517}
RenewalOffsets == {-1, 0, 1, 30}

\* a record written by an earlier save
PriorSub(s) ==
  [frequency |-> "weekly", renewalDate |-> Some(s + 7), startDate |-> s,
   status |-> "active"]

SaveInit ==
  /\ AuthIdle
  /\ ErrIdle
  /\ \E s \in StartDays, f \in Frequencies, st \in StatusEnum :
       /\ \E k \in NowOffsets : now = s + k
       /\ \E rd \in {None} \cup {Some(s + k) : k \in RenewalOffsets} :
            sub = [frequency |-> f, renewalDate |-> rd, startDate |-> s,
                   status |-> st]
  /\ draft = sub
  /\ stored \in {None, Some(PriorSub(sub.startDate - 1))}
  /\ saveState = "draft"
  /\ saveError = None
  /\ saves = 0

\* the paths save() validates: every path of a new document; on a later
\* save the loaded renewalDate, which the caller did not touch, is
\* validated again or is skipped
ValidatedDocs(doc, n) ==
  IF n = 0 THEN {doc} ELSE {doc, [doc EXCEPT !.renewalDate = None]}

\* document.save(): validation, then the pre-save rule, then the write
Save ==
  /\ saveState = "draft"
  /\ \E checked \in ValidatedDocs(sub, saves) :
       LET msgs == Validate(checked, now)
       IN IF Len(msgs) > 0
          THEN /\ saveError' = Some(ValidationError(msgs))
               /\ saveState' = "rejected"
               /\ UNCHANGED <<sub, stored, saves>>
          ELSE /\ sub' = preSave(sub, now)
               /\ stored' = Some(preSave(sub, now))
               /\ saveState' = "saved"
               /\ saves' = saves + 1
               /\ UNCHANGED saveError
  /\ UNCHANGED <<draft, now, authVars, errVars>>

\* an update of the saved document, created with no renewalDate: the
\* caller sets startDate or frequency, never renewalDate, and saves again
MaxSaves == 2
StartShifts == {-1, 1}
Edit ==
  /\ saveState = "saved"
  /\ saves < MaxSaves
  /\ saves = 1 => ~IsSome(draft.renewalDate)
  /\ \E doc \in {[sub EXCEPT !.frequency = f] : f \in FrequencyEnum \ {sub.frequency}}
               \cup {[sub EXCEPT !.startDate = @ + k] : k \in StartShifts} :
       /\ sub' = doc
       /\ draft' = doc
  /\ saveState' = "draft"
  /\ UNCHANGED <<stored, now, saveError, saves, authVars, errVars>>

SaveNext == Save \/ Edit
SpecSave == SaveInit /\ [][SaveNext]_vars

(***************************************************************************)
(* The error middleware applied to one error.                              *)
(***************************************************************************)
MaxErrors == 3
FieldMessages == [i \in 1..MaxErrors |-> "m" \o ToString(i)]
ErrorClasses == {"CustomError", "Error", "MongoServerError", "ValidationError"}
ErrorNames == {"Error", "CastError", "ValidationError", "MongoServerError"}
StatusCodes == {0, 404, 418}
KeyValues ==
  {NoKeyValue, [pairs |-> << >>, present |-> TRUE],
   [pairs |-> << <<"email", "a@b.com">> >>, present |-> TRUE],
   [pairs |-> << <<"name", "Ann">>, <<"email", "a@b.com">> >>, present |-> TRUE]}
Stacks == {"at A", "at B"}
ErrorShapes ==
  {[cls |-> c, code |-> cd, errors |-> SubSeq(FieldMessages, 1, n),
    keyValue |-> kv, message |-> m, name |-> nm, stack |-> st,
    statusCode |-> sc] :
     c \in ErrorClasses, cd \in {0, 11000}, n \in 0..MaxErrors,
     kv \in KeyValues, m \in {"", "boom"}, nm \in ErrorNames,
     st \in Stacks, sc \in StatusCodes}
Modes == {"development", "production", "test", "undefined"}

ErrInit ==
  /\ users = {}
  /\ req = [r \in Reqs |-> IdleReq]
  /\ session = [r \in Reqs |-> NoSession]
  /\ res = [r \in Reqs |-> NoRes]
  /\ faults = 0
  /\ nodeEnv \in Modes
  /\ SaveIdle
  /\ errIn \in ErrorShapes
  /\ errRes = NoRes

\* next(err) reaches errorMiddleware, which sends the response
HandleError ==
  /\ ~errRes.sent
  /\ errRes' = errorMiddleware(errIn, nodeEnv)
  /\ UNCHANGED <<errIn, authVars, saveVars>>

ErrNext == HandleError
SpecErr == ErrInit /\ [][ErrNext]_vars
(***************************************************************************)
(* Properties of the account handlers                                      *)
(***************************************************************************)
Done(r) == req[r].pc \in {"done", "rejected"}
SignUps == {r \in Reqs : req[r].kind = "signUp"}
SignIns == {r \in Reqs : req[r].kind = "signIn"}
SignOuts == {r \in Reqs : req[r].kind = "signOut"}
NoFault(r) == req[r].failedAt = ""
Created(r) == \E u \in users : u._id = r
WithEmail(e) == {u \in users : u.email = e}
Succeeded(r) ==
  /\ res[r].sent /\ res[r].statusCode = 200
  /\ "data" \in DOMAIN res[r].body /\ res[r].body.data.token = sign(r)
\* two finished, fault-free signups for one email that nobody else registered
RacePairs ==
  {p \in SignUps \X SignUps :
     /\ p[1] # p[2]
     /\ req[p[1]].body.email = req[p[2]].body.email
     /\ Done(p[1]) /\ Done(p[2]) /\ NoFault(p[1]) /\ NoFault(p[2])
     /\ \A u \in WithEmail(req[p[1]].body.email) : u._id \in {p[1], p[2]}}

\* C1 (as claimed): of two signups with the same email exactly one succeeds
\* with 200 and a token, the other fails with 409, and exactly one User
\* record with that email exists afterwards.
C1_LoserGets409 ==
  \A p \in RacePairs :
    /\ Cardinality(WithEmail(req[p[1]].body.email)) = 1
    /\ \E w \in {p[1], p[2]} : \E l \in {p[1], p[2]} \ {w} :
         Succeeded(w) /\ res[l].sent /\ res[l].statusCode = 409

\* C2 (as claimed): the signup that does not create the user ends with a 4xx response,
\* never 5xx or 200, and the winner's record stays exactly as it was created.
C2_LoserIs4xx ==
  \A w \in SignUps : \A l \in SignUps \ {w} :
    ( /\ req[w].body.email = req[l].body.email
      /\ Created(w) /\ Done(l) /\ NoFault(l) )
    => /\ res[l].sent
       /\ res[l].statusCode \in 400..499
       /\ ~Created(l)
       /\ WithEmail(req[l].body.email) = {req[w].user[1]}

\* C3: when a step of signup inside the transaction fails (lookup, hashing,
\* creation, token signing or commit), abortTransaction is performed, the
\* transaction is not committed and no User record of that signup exists.
FailedInTransaction(r) ==
  /\ r \in SignUps /\ Done(r) /\ IsSome(req[r].error)
  /\ req[r].failedAt \notin {"startSession", "respond"}
C3_FailedSignupLeavesNoUser ==
  \A r \in Reqs :
    FailedInTransaction(r)
    => /\ session[r].abortCalls = 1
       /\ session[r].txn = "aborted"
       /\ session[r].pending = {}
       /\ ~Created(r)

C3_Witness ==
  \E r \in SignUps :
    /\ Done(r) /\ req[r].failedAt = "create" /\ IsSome(req[r].hashedPassword)
    /\ WithEmail(req[r].body.email) = {}

\* C4 (as claimed): every signup performs exactly one of commitTransaction
\* and abortTransaction, never both and never neither, and endSession
\* exactly once, on every exit path.
C4_ReleasedExactlyOnce ==
  \A r \in SignUps :
    (Done(r) /\ session[r].txn # "none")
    => /\ (session[r].txn = "committed") # (session[r].abortCalls > 0)
       /\ session[r].commitCalls + session[r].abortCalls >= 1
       /\ session[r].endCalls = 1

\* C5: signup with an email that already belongs to a User fails with 409:
\* the transaction is aborted, no User is created, no password is hashed
\* and no token is issued.
C5_ExistingEmailConflict ==
  \A r \in SignUps :
    (Done(r) /\ IsSome(req[r].existingUser))
    => /\ res[r].sent /\ res[r].statusCode = 409
       /\ res[r].body.message = "User already exists"
       /\ session[r].txn = "aborted" /\ session[r].commitCalls = 0
       /\ ~Created(r)
       /\ req[r].hashedPassword = None /\ req[r].token = None
       /\ Cardinality(WithEmail(req[r].body.email)) = 1

C5_Witness ==
  \E r \in SignUps :
    /\ Done(r) /\ IsSome(req[r].existingUser) /\ res[r].statusCode = 409
    /\ ExistingUser \in users /\ req[r].body.email = ExistingUser.email

PublicFields == {"_id", "name", "email"}

\* C6 (as claimed): the signup success response carries the token and only
\* the user's public fields, never the credential hash.
C6_SignupResponsePublicOnly ==
  \A r \in SignUps :
    (res[r].sent /\ res[r].statusCode = 200)
    => /\ res[r].body.data.token = req[r].token[1]
       /\ DOMAIN res[r].body.data.user \subseteq PublicFields
       /\ "password" \notin DOMAIN res[r].body.data.user

\* the stored user a signin looked up
StoredFor(r) == CHOOSE u \in users : u.email = req[r].body.email

\* C7 (as claimed): signin with a correct email and password returns 200
\* with a token and the user's public fields, never the password hash.
C7_SigninSucceeds ==
  \A r \in SignIns :
    ( /\ Done(r) /\ IsSome(req[r].user)
      /\ compare(req[r].body.password, StoredFor(r).password) )
    => /\ res[r].sent /\ res[r].statusCode = 200
       /\ "data" \in DOMAIN res[r].body
       /\ res[r].body.data.token = sign(StoredFor(r)._id)
       /\ "password" \notin DOMAIN res[r].body.data.user

\* C8 (as claimed): signin with an unknown email fails with 404 without a
\* password comparison, signin with a wrong password fails with 401, and
\* neither issues a token.
C8_SigninFailures ==
  \A r \in SignIns :
    Done(r) =>
      /\ ~IsSome(req[r].user)
           => /\ res[r].statusCode = 404 /\ ~req[r].compared
              /\ req[r].token = None
      /\ ( /\ IsSome(req[r].user)
           /\ ~compare(req[r].body.password, StoredFor(r).password) )
           => res[r].statusCode = 401 /\ req[r].token = None

\* C9 (as claimed): signout always ends with the 200 success response and
\* never forwards an error.
C9_SignoutAlwaysSucceeds ==
  \A r \in SignOuts :
    Done(r) => /\ res[r].sent /\ res[r].statusCode = 200
               /\ res[r].body.success
               /\ req[r].nextCalls = 0

(***************************************************************************)
(* Properties of the subscription save                                     *)
(***************************************************************************)
Derived == saveState = "saved" /\ ~IsSome(draft.renewalDate)

\* C10 (as claimed): a save with no renewalDate sets it to startDate + 1 day
\* for daily, + 7 days for weekly, and to the same month and day of the
\* next year for yearly, for every startDate.
C10_DailyWeeklyYearly ==
  Derived =>
    LET s == draft.startDate
        rd == sub.renewalDate
    IN /\ draft.frequency = "daily" => rd = Some(s + 1)
       /\ draft.frequency = "weekly" => rd = Some(s + 7)
       /\ draft.frequency = "yearly" =>
            /\ IsSome(rd)
            /\ YearFromDay(rd[1]) = YearFromDay(s) + 1
            /\ MonthFromDay(rd[1]) = MonthFromDay(s)
            /\ DateFromDay(rd[1]) = DateFromDay(s)

\* the months elapsed since year 0 at day d
MonthIndex(d) == 12 * YearFromDay(d) + MonthFromDay(d)
HasMessage(e, msg) == \E i \in DOMAIN e.errors : e.errors[i] = msg

\* C11 (as claimed): a save with frequency monthly and no renewalDate sets
\* renewalDate to a date in the calendar month immediately following the
\* month of startDate, for every startDate, days 29, 30 and 31 included.
C11_MonthlyNextMonth ==
  (Derived /\ draft.frequency = "monthly") =>
    /\ IsSome(sub.renewalDate)
    /\ MonthIndex(sub.renewalDate[1]) = MonthIndex(draft.startDate) + 1

\* C12 (as claimed): a save with no renewalDate and a frequency that is
\* unset or not one of the four values leaves renewalDate unset and leaves
\* status as it was.
C12_UnsetFrequencyLeavesUnset ==
  (Derived /\ draft.frequency \notin FrequencyEnum) =>
    /\ ~IsSome(sub.renewalDate)
    /\ sub.status = draft.status

\* C13 (as claimed): every persisted Subscription whose renewalDate is
\* present has renewalDate strictly after startDate, supplied or derived,
\* for every frequency, unset included.
C13_RenewalAfterStart ==
  (saveState = "saved" /\ IsSome(stored) /\ IsSome(stored[1].renewalDate)) =>
    stored[1].renewalDate[1] > stored[1].startDate

\* C14: after every save in which the renewalDate, derived or supplied, is
\* strictly before the current time, the persisted status is "expired"
\* whatever it was before; the test follows the derivation in the same save.
C14_ExpiredOnSave ==
  (saveState = "saved" /\ IsSome(sub.renewalDate) /\ sub.renewalDate[1] < now) =>
    /\ sub.status = "expired"
    /\ stored = Some(sub)
\* startDate 2024-01-01, yearly, active, saved on 2025-06-01
C14_Witness ==
  /\ Derived
  /\ draft.startDate = MakeDay(2024, 0, 1)
  /\ draft.frequency = "yearly"
  /\ draft.status = "active"
  /\ now = MakeDay(2025, 5, 1)
  /\ sub.renewalDate = Some(MakeDay(2025, 0, 1))
  /\ sub.status = "expired"

\* C15: a save whose supplied renewalDate is not strictly after startDate
\* fails with a validation error carrying the renewalDate message, and
\* writes nothing: the document and the stored record stay as they were.
C15_RenewalNotAfterStartRejected ==
  [][(saves = 0 /\ IsSome(draft.renewalDate)
        /\ draft.renewalDate[1] <= draft.startDate) =>
       /\ saveState' = "rejected"
       /\ IsSome(saveError')
       /\ saveError'[1].name = "ValidationError"
       /\ HasMessage(saveError'[1], "Renewal date must be after the start date")
       /\ sub' = sub
       /\ stored' = stored]_vars
C15_Witness ==
  /\ saveState = "rejected"
  /\ draft.renewalDate = Some(draft.startDate)
  /\ draft.startDate < now
  /\ draft.frequency \in FrequencyEnum
  /\ IsSome(stored)
  /\ saveError[1].errors = <<"Renewal date must be after the start date">>

\* C16: a save whose startDate is not strictly before the current time at
\* validation fails with a validation error carrying the startDate message,
\* and writes nothing.
C16_StartNotInPastRejected ==
  [][(draft.startDate >= now) =>
       /\ saveState' = "rejected"
       /\ IsSome(saveError')
       /\ saveError'[1].name = "ValidationError"
       /\ HasMessage(saveError'[1], "Start date must in the past")
       /\ sub' = sub
       /\ stored' = stored]_vars
C16_Witness ==
  /\ saveState = "rejected"
  /\ draft.startDate = now
  /\ ~IsSome(draft.renewalDate)
  /\ sub = draft
  /\ saveError[1].errors = <<"Start date must in the past">>

\* an error of none of the four classes the middleware knows
Unclassified(e) ==
  /\ e.cls # "CustomError"
  /\ e.name \notin {"CastError", "ValidationError"}
  /\ e.code # 11000
FallbackMessage(e) == IF e.message # "" THEN e.message ELSE "Internal Server Error"
DuplicateText(kv) ==
  IF Len(kv.pairs) > 0
    THEN "Duplicate value for " \o kv.pairs[1][1] \o ": " \o kv.pairs[1][2]
    ELSE "Duplicate value for undefined: undefined"
\* m1, m2, ..., mn written out from the left
RECURSIVE Listed(_, _)
Listed(msgs, n) ==
  IF n = 1 THEN msgs[1] ELSE Listed(msgs, n - 1) \o ", " \o msgs[n]

\* C17 (as claimed): every error of none of the four classes is answered
\* with status 500 and its own message or "Internal Server Error", also
\* when the error carries a statusCode of its own.
C17_UnclassifiedIs500 ==
  (errRes.sent /\ Unclassified(errIn)) =>
    /\ errRes.statusCode = 500
    /\ errRes.body.message = FallbackMessage(errIn)

\* C17 (amended): every error of none of the four classes is answered with
\* its own statusCode when it carries one, and with 500 when it carries
\* none, and with its own message or "Internal Server Error".
C17_UnclassifiedOwnStatusOr500 ==
  (errRes.sent /\ Unclassified(errIn)) =>
    /\ errIn.statusCode # 0 => errRes.statusCode = errIn.statusCode
    /\ errIn.statusCode = 0 => errRes.statusCode = 500
    /\ errRes.body.message = FallbackMessage(errIn)
    /\ errRes.body.success = FALSE
C17_Witness ==
  /\ errRes.sent
  /\ Unclassified(errIn)
  /\ errIn.statusCode = 418
  /\ errIn.message = ""
  /\ errRes.statusCode = 418
  /\ errRes.body.message = "Internal Server Error"

\* C18: a CustomError is answered with its own status code and message,
\* also when it has name CastError or ValidationError or code 11000 with a
\* keyValue; a CastError wins over a duplicate key, and a duplicate key
\* over a ValidationError.
C18_FirstMatchWins ==
  errRes.sent =>
    /\ errIn.cls = "CustomError" =>
         /\ errRes.statusCode = errIn.statusCode
         /\ errRes.body.message = errIn.message
    /\ (errIn.cls # "CustomError" /\ errIn.name = "CastError") =>
         /\ errRes.statusCode = 404
         /\ errRes.body.message = "Resource not found!"
    /\ (errIn.cls # "CustomError" /\ errIn.name = "ValidationError"
          /\ errIn.code = 11000 /\ errIn.keyValue.present) =>
         /\ errRes.statusCode = 400
         /\ errRes.body.message = DuplicateText(errIn.keyValue)
C18_Witness ==
  /\ errRes.sent
  /\ errIn.cls = "CustomError"
  /\ errIn.name = "CastError"
  /\ errIn.code = 11000
  /\ Len(errIn.keyValue.pairs) = 1
  /\ errIn.statusCode = 418
  /\ errRes.statusCode = 418
  /\ errRes.body.message = "boom"

\* C19: a duplicate-key error of the driver (code 11000) on field f with
\* value v is answered with status 400 and "Duplicate value for f: v".
C19_DuplicateKey ==
  (errRes.sent /\ errIn.cls = "MongoServerError"
     /\ errIn.name = "MongoServerError" /\ errIn.code = 11000
     /\ errIn.keyValue.present /\ Len(errIn.keyValue.pairs) = 1) =>
    LET f == errIn.keyValue.pairs[1][1]
        v == errIn.keyValue.pairs[1][2]
    IN /\ errRes.statusCode = 400
       /\ errRes.body.message = "Duplicate value for " \o f \o ": " \o v
C19_Witness ==
  /\ errRes.sent
  /\ errIn.cls = "MongoServerError"
  /\ errIn.name = "MongoServerError"
  /\ errIn.code = 11000
  /\ errIn.keyValue.pairs = << <<"email", "a@b.com">> >>
  /\ errRes.statusCode = 400
  /\ errRes.body.message = "Duplicate value for email: a@b.com"

\* C20: a ValidationError carrying messages m1..mn, n >= 1, is answered
\* with status 400 and the message "m1, m2, ..., mn", every per-field
\* message once and in order.
C20_ValidationMessagesJoined ==
  (errRes.sent /\ errIn.cls = "ValidationError"
     /\ errIn.name = "ValidationError" /\ errIn.code # 11000
     /\ Len(errIn.errors) >= 1) =>
    /\ errRes.statusCode = 400
    /\ errRes.body.message = Listed(errIn.errors, Len(errIn.errors))
C20_Witness ==
  /\ errRes.sent
  /\ errIn.cls = "ValidationError"
  /\ errIn.name = "ValidationError"
  /\ errIn.code = 0
  /\ errIn.errors = <<"m1", "m2", "m3">>
  /\ errRes.statusCode = 400
  /\ errRes.body.message = "m1, m2, m3"

\* C21: in production mode the response body of every error, whatever its
\* class, has the keys success and message only, neither stack nor
\* originalError, and the response is the same for every stack the error
\* could carry.
C21_ProductionHidesStack ==
  (errRes.sent /\ nodeEnv = "production") =>
    /\ DOMAIN errRes.body = {"message", "success"}
    /\ \A st \in Stacks :
         errorMiddleware([errIn EXCEPT !.stack = st], nodeEnv) = errRes
C21_Witness ==
  /\ errRes.sent
  /\ nodeEnv = "production"
  /\ errIn.name = "ValidationError"
  /\ errIn.stack = "at B"
  /\ errRes.statusCode = 400
  /\ DOMAIN errRes.body = {"message", "success"}

\* C25 (as claimed): in every mode other than production (development,
\* test, unset) the response body also has the stack trace and the
\* original error.
C25_NonProductionShowsStack ==
  (errRes.sent /\ nodeEnv # "production") =>
    /\ {"stack", "originalError"} \subseteq DOMAIN errRes.body
    /\ errRes.body.stack = errIn.stack

\* C25 (amended): in development mode the response body also has the
\* stack trace and the original error; in every other mode (production,
\* test, unset) it has neither.
C25_OnlyDevelopmentShowsStack ==
  errRes.sent =>
    /\ nodeEnv = "development" =>
         /\ DOMAIN errRes.body = {"message", "originalError", "stack", "success"}
         /\ errRes.body.stack = errIn.stack
         /\ errRes.body.originalError = errIn
    /\ nodeEnv # "development" => DOMAIN errRes.body = {"message", "success"}
C25_Witness ==
  /\ errRes.sent
  /\ nodeEnv = "development"
  /\ errIn.stack = "at A"
  /\ errRes.body.stack = "at A"
  /\ errRes.body.originalError = errIn

\* C22 (as claimed): every request whose handler has finished has exactly
\* one response: when an error was raised, also while opening the session
\* or aborting the transaction, the error went to errorMiddleware once and
\* the response is its normalized form; otherwise it is the success response.
C22_NoErrorSwallowed ==
  \A r \in Reqs :
    Done(r) =>
      /\ res[r].sent
      /\ IsSome(req[r].error) =>
           /\ req[r].nextCalls = 1
           /\ res[r] = errorMiddleware(req[r].error[1], nodeEnv)
      /\ ~IsSome(req[r].error) =>
           /\ req[r].nextCalls = 0
           /\ res[r].statusCode = 200

\* C23 (as claimed): a signup token exists only once the transaction is
\* committed, so no token is signed for a user whose commit fails or whose
\* creation is rolled back, and the 200 response follows a successful commit.
C23_TokenOnlyAfterCommit ==
  \A r \in SignUps :
    /\ IsSome(req[r].token) => session[r].txn = "committed"
    /\ (res[r].sent /\ res[r].statusCode = 200) => session[r].txn = "committed"

\* C24 (as claimed): after a create with no renewalDate and updates that
\* change startDate or frequency, the persisted renewalDate is the current
\* startDate advanced by one unit of the current frequency, and the status
\* is "expired" when that renewalDate is before the current time.
C24_RederivedOnEverySave ==
  (saveState = "saved" /\ saves >= 2 /\ stored[1].frequency \in FrequencyEnum) =>
    /\ stored[1].renewalDate =
         Some(Advance(stored[1].startDate, stored[1].frequency))
    /\ stored[1].renewalDate[1] < now => stored[1].status = "expired"

\* C26: a save changes only renewalDate and status of the document: the
\* other fields keep their values, a renewalDate that is present is kept
\* as it is and still gets the expiry test, and status changes, if at
\* all, to "expired".
C26_SaveRuleFrame ==
  [][(saveState = "draft" /\ saveState' = "saved") =>
       /\ DOMAIN sub' = DOMAIN sub
       /\ sub'.startDate = sub.startDate
       /\ sub'.frequency = sub.frequency
       /\ IsSome(sub.renewalDate) =>
            /\ sub'.renewalDate = sub.renewalDate
            /\ sub.renewalDate[1] < now => sub'.status = "expired"
       /\ sub'.status # sub.status => sub'.status = "expired"
       /\ sub.status = "expired" => sub'.status = "expired"]_vars
\* a supplied renewalDate in the past, and an expired record saved with a
\* renewalDate still ahead
C26_Witness ==
  /\ saveState = "saved"
  /\ saves = 1
  /\ \/ /\ draft.renewalDate = Some(draft.startDate + 1)
        /\ now = draft.startDate + 2
        /\ draft.status = "active"
        /\ sub.status = "expired"
        /\ sub.renewalDate = draft.renewalDate
     \/ /\ draft.renewalDate = Some(draft.startDate + 30)
        /\ now = draft.startDate + 8
        /\ draft.status = "expired"
        /\ sub.status = "expired"
        /\ sub.renewalDate = draft.renewalDate
====
